---- MODULE Spec2Model ----
(***************************************************************************)
(* SARSA(lambda) agent for Pong (agents/sarsa.py) and its perception code  *)
(* (util/pongcess.py): Positions, RelativeBall, StateIndex.                *)
(*                                                                         *)
(* Numbers the program holds as Python floats (q_vals, e_vals, the TD      *)
(* error, learning_rate, discount, lambda_v) are exact rationals <<n, d>>  *)
(* in lowest terms with d > 0.  Rewards are the integers the emulator      *)
(* hands out.                                                              *)
(***************************************************************************)
EXTENDS Integers, Sequences, FiniteSets, TLC

VARIABLES
    \* SarsaAgent fields
    q_vals, e_vals, s_, a_, r_,
    trace_type, learning_rate, discount, lambda_v, n_frames_per_action,
    action_repeat_manager, available_actions,
    \* the emulator's action set, handed to set_available_actions
    legal_actions,
    \* StateIndex fields (agent.preprocessor)
    feature_states, state2index,
    \* what the last call was, with its arguments, locals and return value
    last,
    \* history: rewards passed to receive_reward since the last learning call
    hist,
    \* history: calls counted from construction, and the caps that end the run
    ncalls, nlearn, nrewards, caps,
    \* Positions fields, and the last value RelativeBall.process returned
    ball, agent, opponent, feature_value,
    \* history: the (cropped) pixels of the last frame each object was found
    \* in, and which objects the last frame lacked
    seen, missed,
    \* BallIntercept: last_ball, and while process() runs (pc = "loop") its
    \* locals ball (bi_ball), vel and edge; pc = "far" where the run is left
    \* because the virtual ball ran past the Horizon
    last_ball, pc, bi_ball, vel, edge,
    \* history: the arguments of the last next_intercept call, and the parity
    \* of the number of next_intercept calls process() has made
    bounce, iter

sarsaVars == <<q_vals, e_vals, s_, a_, r_, trace_type, learning_rate, discount,
               lambda_v, n_frames_per_action, action_repeat_manager,
               available_actions, legal_actions, last, hist, ncalls, nlearn,
               nrewards, caps>>
indexVars == <<feature_states, state2index>>
interceptVars == <<last_ball, pc, bi_ball, vel, edge, bounce, iter>>
posVars == <<ball, agent, opponent, feature_value, seen, missed, interceptVars>>
vars == <<sarsaVars, indexVars, posVars>>

----------------------------------------------------------------------------
(* Bounds of the model *)

\* rows of the tables of the main specification
NStates == 2
\* legal actions of the main specification
NActions == 2
\* select_action calls in one run
MaxCalls == 3
\* learning (non-skipped) select_action calls in one run
MaxLearn == 2
\* receive_reward calls in one run
MaxRewards == 2
\* n_frames_per_action ranges over 1..MaxFrames
MaxFrames == 2
\* the agent's paddle and the ball are drawn 1..MaxSprite pixel rows high
MaxSprite == 2
\* length of the lists a feature's enumerate_states() may return
MaxEnum == 3
\* the ball is observed at BallSamples x BallSamples positions of the play area
BallSamples == 3
\* a virtual ball that has run this far off the frame is not followed further
Horizon == 1600

\* Python's None where a table, a dict or a list is expected, and where a
\* number is expected (action indices and state indices are never negative)
None == [i \in {-1} |-> -1]
NoneInt == -1

----------------------------------------------------------------------------
(* Exact rational arithmetic standing for the float arithmetic *)

Abs(x) == IF x < 0 THEN -x ELSE x

RECURSIVE GCD(_, _)
GCD(a, b) == IF b = 0 THEN a ELSE GCD(b, a % b)

Norm(n, d) ==
    LET g == GCD(Abs(n), d) IN <<n \div g, d \div g>>

Zero == <<0, 1>>
One == <<1, 1>>
Int2R(i) == <<i, 1>>

RAdd(x, y) ==
    LET g == GCD(x[2], y[2])
        L == (x[2] \div g) * y[2]
    IN  Norm(x[1] * (L \div x[2]) + y[1] * (L \div y[2]), L)

RNeg(x) == <<-x[1], x[2]>>
RSub(x, y) == RAdd(x, RNeg(y))

RMul(x, y) ==
    LET g1 == GCD(Abs(x[1]), y[2])
        g2 == GCD(Abs(y[1]), x[2])
    IN  Norm((x[1] \div g1) * (y[1] \div g2), (x[2] \div g2) * (y[2] \div g1))

RLess(x, y) == RSub(x, y)[1] < 0
RLeq(x, y) == RSub(x, y)[1] <= 0

----------------------------------------------------------------------------
(* util/pongcess.py: StateIndex *)

Range(f) == {f[i] : i \in DOMAIN f}

\* StateIndexInit numbering the values from 1
StateIndexInitFromOne(states) ==
    [v \in Range(states) |->
        CHOOSE i \in 1..Len(states) :
            /\ states[i] = v
            /\ \A j \in (i+1)..Len(states) : states[j] # v]

\* dict([(s,i) for i,s in enumerate(states)]): a later pair replaces an
\* earlier pair with the same key, so a value listed twice keeps its last index
StateIndexInit(states) ==
    [v \in Range(states) |->
        (CHOOSE i \in 1..Len(states) :
            /\ states[i] = v
            /\ \A j \in (i+1)..Len(states) : states[j] # v) - 1]

KeyError == -2

\* StateIndexProcess answering index 0 for a value it does not know
StateIndexProcessClamps(s2i, state) ==
    IF state \in DOMAIN s2i THEN s2i[state] ELSE 0

\* self.state2index[state]: the index, or KeyError for a missing key
StateIndexProcess(s2i, state) ==
    IF state \in DOMAIN s2i THEN s2i[state] ELSE KeyError

\* list(self.state2index.iterkeys())
StateIndexEnumerateStates(s2i) == DOMAIN s2i

----------------------------------------------------------------------------
(* util/managers.py: RepeatManager(n), as the frame-skip gate the          *)
(* specification describes: after set(v), the next n calls of next()       *)
(* return v, and the call after them returns None.                         *)

RepeatManagerInit == [value |-> NoneInt, left |-> 0]
RepeatNextValue(m) == IF m.left > 0 THEN m.value ELSE NoneInt
RepeatNextState(m) == IF m.left > 0 THEN [m EXCEPT !.left = m.left - 1] ELSE m
RepeatSet(m, v, n) == [value |-> v, left |-> n]

----------------------------------------------------------------------------
(* agents/sarsa.py: the pure parts of SarsaAgent *)

TraceTypes == {"accumulating", "replacing", "dutch", "other"}

\* np.zeros((state_n, len(actions)))
Zeros(n, m) == [s \in 0..(n-1) |-> [a \in 0..(m-1) |-> Zero]]

AllZero(t) == \A s \in DOMAIN t : \A a \in DOMAIN t[s] : t[s][a] = Zero

\* TDError with the discount left out of the bootstrap term
TDErrorNoDiscount(q, r, s, a, s2, a2, disc) ==
    RSub(RAdd(Int2R(r), q[s2][a2]), q[s][a])

\* d = r + self.discount * self.q_vals[s_, a_] - self.q_vals[s, a]
TDError(q, r, s, a, s2, a2, disc) ==
    RSub(RAdd(Int2R(r), RMul(disc, q[s2][a2])), q[s][a])

\* TraceBump with the dutch rule decaying after the increment, and the
\* accumulating rule assigning instead of adding
TraceBumpWrongRule(e, s, a, tt, lr) ==
    CASE tt = "accumulating" -> [e EXCEPT ![s][a] = One]
      [] tt = "replacing"    -> [e EXCEPT ![s][a] = One]
      [] tt = "dutch"        ->
            [e EXCEPT ![s][a] = RMul(RAdd(e[s][a], One), RSub(One, lr))]
      [] OTHER               -> e

\* TraceBump falling back to the replacing rule for any other value
TraceBumpElseReplacing(e, s, a, tt, lr) ==
    CASE tt = "accumulating" -> [e EXCEPT ![s][a] = RAdd(e[s][a], One)]
      [] tt = "dutch"        ->
            [e EXCEPT ![s][a] = RAdd(RMul(e[s][a], RSub(One, lr)), One)]
      [] OTHER               -> [e EXCEPT ![s][a] = One]

\* the if/elif chain over self.trace_type; no branch for any other value
TraceBump(e, s, a, tt, lr) ==
    CASE tt = "accumulating" -> [e EXCEPT ![s][a] = RAdd(e[s][a], One)]
      [] tt = "replacing"    -> [e EXCEPT ![s][a] = One]
      [] tt = "dutch"        ->
            [e EXCEPT ![s][a] = RAdd(RMul(e[s][a], RSub(One, lr)), One)]
      [] OTHER               -> e

\* self.q_vals += self.learning_rate * d * self.e_vals
QUpdate(q, lr, d, e) ==
    LET step == RMul(lr, d)
    IN  [s \in DOMAIN q |-> [a \in DOMAIN q[s] |->
            IF e[s][a] = Zero THEN q[s][a]
            ELSE RAdd(q[s][a], RMul(step, e[s][a]))]]

\* EDecay multiplying by lambda alone
EDecayByLambda(e, disc, lam) ==
    [s \in DOMAIN e |-> [a \in DOMAIN e[s] |->
        IF e[s][a] = Zero THEN Zero ELSE RMul(e[s][a], lam)]]

\* self.e_vals *= (self.discount * self.lambda_v)
EDecay(e, disc, lam) ==
    LET factor == RMul(disc, lam)
    IN  [s \in DOMAIN e |-> [a \in DOMAIN e[s] |->
            IF e[s][a] = Zero THEN Zero ELSE RMul(e[s][a], factor)]]

\* Argmax breaking ties by the last index holding the maximum
ArgmaxLast(row) ==
    CHOOSE i \in DOMAIN row :
        /\ \A j \in DOMAIN row : RLeq(row[j], row[i])
        /\ \A j \in DOMAIN row : j > i => RLess(row[j], row[i])

\* np.argmax(row): the first index holding the maximum
Argmax(row) ==
    CHOOSE i \in DOMAIN row :
        /\ \A j \in DOMAIN row : RLeq(row[j], row[i])
        /\ \A j \in DOMAIN row : j < i => RLess(row[j], row[i])

\* np.argmax(self.available_actions == action): the first position holding
\* the action code, 0 when no position holds it
ArgmaxEq(actions, code) ==
    IF \E i \in 1..Len(actions) : actions[i] = code
    THEN (CHOOSE i \in 1..Len(actions) :
            /\ actions[i] = code
            /\ \A j \in 1..(i-1) : actions[j] # code) - 1
    ELSE 0

\* FrameRepeats handing the whole frame count to RepeatManager
FrameRepeatsOffByOne(k) == k

\* RepeatManager(n_frames_per_action - 1)
FrameRepeats(k) == k - 1

\* e_greedy(sid): explore says which side of the epsilon test the random
\* draw fell on, code is what get_random_action() returned
EGreedy(q, actions, sid, explore, code) ==
    IF explore THEN ArgmaxEq(actions, code) ELSE Argmax(q[sid])

----------------------------------------------------------------------------
(* Inputs *)

\* what a feature's enumerate_states() lists: n consecutive offsets around 0
FeatureList(n) == [i \in 1..n |-> i - 1 - (n \div 2)]

\* the first m action codes of the emulator's minimal action set for Pong
ActionList(m) == SubSeq(<<0, 1, 3, 4, 11, 12>>, 1, m)

\* the rewards the emulator hands out in Pong
Rewards == {-1, 1}

\* get_random_action(): one of the actions set_available_actions was given
RandomActions(actions) == IF actions = None THEN {} ELSE Range(actions)

----------------------------------------------------------------------------
(* agents/sarsa.py: SarsaAgent *)

\* op: the method called; v: the feature value or the reward it was given;
\* update: whether it ran the table update; s, a, r, s2, a2, d: the locals
\* s, a, r, s_, a_, d of select_action; explore: which branch e_greedy took;
\* ret: the value returned; rewards: hist as the call found it; pre: the
\* tables, the pending pair and the accumulator as the call found them;
\* prev: the state index selected and the action returned by the latest
\* call before this one that ran the table update, <<>> when there is none;
\* ended: the pending pair, the accumulator and the number of rewards in
\* hist as the latest on_episode_end since that update found them, <<>>
\* when there is none
Call(op, v, update, s, a, r, s2, a2, d, explore, ret, rewards) ==
    [op |-> op, v |-> v, update |-> update, s |-> s, a |-> a, r |-> r,
     s2 |-> s2, a2 |-> a2, d |-> d, explore |-> explore, ret |-> ret,
     rewards |-> rewards,
     pre |-> [q |-> q_vals, e |-> e_vals, s |-> s_, a |-> a_, r |-> r_,
              m |-> action_repeat_manager],
     prev |-> IF op = "__init__" THEN <<>>
              ELSE IF last.op = "select_action" /\ last.update
                   THEN <<last.s2, last.ret>>
                   ELSE last.prev,
     ended |-> IF op = "__init__" THEN <<>>
               ELSE IF op = "on_episode_end" THEN <<s_, a_, r_, Len(hist)>>
               ELSE IF last.op = "select_action" /\ last.update THEN <<>>
               ELSE last.ended]

NoCall(op) ==
    Call(op, 0, FALSE, 0, 0, 0, 0, 0, Zero, FALSE, NoneInt, <<>>)

\* SarsaAgent.__init__
InitSarsa(lr, disc, lam, tts, ks, fs, acts, cp) ==
    /\ q_vals = None
    /\ e_vals = None
    /\ s_ = 0
    /\ a_ = 0
    /\ r_ = 0
    /\ trace_type \in tts
    /\ learning_rate = lr
    /\ discount = disc
    /\ lambda_v = lam
    /\ n_frames_per_action \in ks
    /\ action_repeat_manager = RepeatManagerInit
    /\ available_actions = None
    /\ legal_actions = acts
    /\ feature_states = fs
    /\ state2index = None
    /\ last = NoCall("__init__")
    /\ hist = <<>>
    /\ ncalls = 0
    /\ nlearn = 0
    /\ nrewards = 0
    /\ caps = cp

\* set_raw_state_callbacks: self.preprocessor = StateIndex(feature)
SetRawStateCallbacks ==
    /\ state2index = None
    /\ state2index' = StateIndexInit(feature_states)
    /\ last' = NoCall("set_raw_state_callbacks")
    /\ UNCHANGED <<q_vals, e_vals, s_, a_, r_, trace_type, learning_rate,
                   discount, lambda_v, n_frames_per_action,
                   action_repeat_manager, available_actions, legal_actions,
                   hist, ncalls, nlearn, nrewards, caps, feature_states, posVars>>

\* SetAvailableActions allocating E with the two dimensions swapped
SetAvailableActionsSwapped ==
    /\ state2index # None
    /\ q_vals = None
    /\ available_actions' = legal_actions
    /\ LET state_n == Cardinality(StateIndexEnumerateStates(state2index))
       IN  /\ q_vals' = Zeros(state_n, Len(legal_actions))
           /\ e_vals' = Zeros(Len(legal_actions), state_n)
    /\ last' = NoCall("set_available_actions")
    /\ UNCHANGED <<s_, a_, r_, trace_type, learning_rate, discount, lambda_v,
                   n_frames_per_action, action_repeat_manager, legal_actions,
                   hist, ncalls, nlearn, nrewards, caps, indexVars, posVars>>

\* set_available_actions(actions)
SetAvailableActions ==
    /\ state2index # None
    /\ q_vals = None
    /\ available_actions' = legal_actions
    /\ LET state_n == Cardinality(StateIndexEnumerateStates(state2index))
       IN  /\ q_vals' = Zeros(state_n, Len(legal_actions))
           /\ e_vals' = Zeros(state_n, Len(legal_actions))
    /\ last' = NoCall("set_available_actions")
    /\ UNCHANGED <<s_, a_, r_, trace_type, learning_rate, discount, lambda_v,
                   n_frames_per_action, action_repeat_manager, legal_actions,
                   hist, ncalls, nlearn, nrewards, caps, indexVars, posVars>>

\* The episode loop calls select_action first and receive_reward after it
\* (ncalls > 0); the run is cut off once either cap on select_action calls
\* is reached
Done == ncalls >= caps.calls \/ nlearn >= caps.learn

\* ReceiveReward assigning the reward instead of adding it
ReceiveRewardOverwrites(reward) ==
    /\ q_vals # None
    /\ ncalls > 0
    /\ ~Done
    /\ nrewards < caps.rewards
    /\ r_' = reward
    /\ hist' = Append(hist, <<reward, ncalls>>)
    /\ nrewards' = nrewards + 1
    /\ last' = [NoCall("receive_reward") EXCEPT !.v = reward]
    /\ UNCHANGED <<q_vals, e_vals, s_, a_, trace_type, learning_rate, discount,
                   lambda_v, n_frames_per_action, action_repeat_manager,
                   available_actions, legal_actions, ncalls, nlearn, caps,
                   indexVars, posVars>>

\* receive_reward(reward)
ReceiveReward(reward) ==
    /\ q_vals # None
    /\ ncalls > 0
    /\ ~Done
    /\ nrewards < caps.rewards
    /\ r_' = r_ + reward
    /\ hist' = Append(hist, <<reward, ncalls>>)
    /\ nrewards' = nrewards + 1
    /\ last' = [NoCall("receive_reward") EXCEPT !.v = reward]
    /\ UNCHANGED <<q_vals, e_vals, s_, a_, trace_type, learning_rate, discount,
                   lambda_v, n_frames_per_action, action_repeat_manager,
                   available_actions, legal_actions, ncalls, nlearn, caps,
                   indexVars, posVars>>

\* OnEpisodeEnd starting the next episode from a cleared accumulator
OnEpisodeEndClears ==
    /\ q_vals # None
    /\ ncalls > 0
    /\ ~Done
    /\ r_' = 0
    /\ hist' = <<>>
    /\ last' = NoCall("on_episode_end")
    /\ UNCHANGED <<q_vals, e_vals, s_, a_, trace_type, learning_rate,
                   discount, lambda_v, n_frames_per_action,
                   action_repeat_manager, available_actions, legal_actions,
                   ncalls, nlearn, nrewards, caps, indexVars, posVars>>

\* on_episode_end: flush_experience() is `pass`
OnEpisodeEnd ==
    /\ q_vals # None
    /\ ncalls > 0
    /\ ~Done
    /\ last' = NoCall("on_episode_end")
    /\ UNCHANGED <<q_vals, e_vals, s_, a_, r_, trace_type, learning_rate,
                   discount, lambda_v, n_frames_per_action,
                   action_repeat_manager, available_actions, legal_actions,
                   hist, ncalls, nlearn, nrewards, caps, indexVars, posVars>>

\* select_action when self.preprocessor.process() raises KeyError (line 56)
SelectActionRaise(v) ==
    /\ q_vals # None
    /\ ~Done
    /\ StateIndexProcess(state2index, v) = KeyError
    /\ last' = [NoCall("select_action") EXCEPT !.v = v, !.ret = KeyError]
    /\ UNCHANGED <<q_vals, e_vals, s_, a_, r_, trace_type, learning_rate,
                   discount, lambda_v, n_frames_per_action,
                   action_repeat_manager, available_actions, legal_actions,
                   hist, ncalls, nlearn, nrewards, caps, indexVars, posVars>>

\* SelectActionSkip returning the state index in place of the repeated action
SelectActionSkipReturnsState(v) ==
    /\ q_vals # None
    /\ ~Done
    /\ StateIndexProcess(state2index, v) # KeyError
    /\ RepeatNextValue(action_repeat_manager) # NoneInt
    /\ action_repeat_manager' = RepeatNextState(action_repeat_manager)
    /\ ncalls' = ncalls + 1
    /\ last' = [NoCall("select_action") EXCEPT
                    !.v = v, !.ret = StateIndexProcess(state2index, v)]
    /\ UNCHANGED <<q_vals, e_vals, s_, a_, r_, trace_type, learning_rate,
                   discount, lambda_v, n_frames_per_action, available_actions,
                   legal_actions, hist, nlearn, nrewards, caps, indexVars,
                   posVars>>

\* SelectActionSkip draining the reward accumulator
SelectActionSkipResets(v) ==
    /\ q_vals # None
    /\ ~Done
    /\ StateIndexProcess(state2index, v) # KeyError
    /\ RepeatNextValue(action_repeat_manager) # NoneInt
    /\ action_repeat_manager' = RepeatNextState(action_repeat_manager)
    /\ ncalls' = ncalls + 1
    /\ r_' = 0
    /\ last' = [NoCall("select_action") EXCEPT
                    !.v = v, !.ret = RepeatNextValue(action_repeat_manager)]
    /\ UNCHANGED <<q_vals, e_vals, s_, a_, trace_type, learning_rate,
                   discount, lambda_v, n_frames_per_action, available_actions,
                   legal_actions, hist, nlearn, nrewards, caps, indexVars,
                   posVars>>

\* SelectActionSkip storing the state it saw as the pending state
SelectActionSkipStoresState(v) ==
    /\ q_vals # None
    /\ ~Done
    /\ StateIndexProcess(state2index, v) # KeyError
    /\ RepeatNextValue(action_repeat_manager) # NoneInt
    /\ action_repeat_manager' = RepeatNextState(action_repeat_manager)
    /\ ncalls' = ncalls + 1
    /\ s_' = StateIndexProcess(state2index, v)
    /\ last' = [NoCall("select_action") EXCEPT
                    !.v = v, !.ret = RepeatNextValue(action_repeat_manager)]
    /\ UNCHANGED <<q_vals, e_vals, a_, r_, trace_type, learning_rate,
                   discount, lambda_v, n_frames_per_action, available_actions,
                   legal_actions, hist, nlearn, nrewards, caps, indexVars,
                   posVars>>

\* select_action when action_repeat_manager.next() returns an action
\* (lines 56-60)
SelectActionSkip(v) ==
    /\ q_vals # None
    /\ ~Done
    /\ StateIndexProcess(state2index, v) # KeyError
    /\ RepeatNextValue(action_repeat_manager) # NoneInt
    /\ action_repeat_manager' = RepeatNextState(action_repeat_manager)
    /\ ncalls' = ncalls + 1
    /\ last' = [NoCall("select_action") EXCEPT
                    !.v = v, !.ret = RepeatNextValue(action_repeat_manager)]
    /\ UNCHANGED <<q_vals, e_vals, s_, a_, r_, trace_type, learning_rate,
                   discount, lambda_v, n_frames_per_action, available_actions,
                   legal_actions, hist, nlearn, nrewards, caps, indexVars,
                   posVars>>

\* select_action when action_repeat_manager.next() returns None
\* (lines 56-106)
SelectActionLearn(v, explore, code) ==
    /\ q_vals # None
    /\ ~Done
    /\ StateIndexProcess(state2index, v) # KeyError
    /\ RepeatNextValue(action_repeat_manager) = NoneInt
    /\ LET sid == StateIndexProcess(state2index, v)
           s   == s_
           a   == a_
           a2  == EGreedy(q_vals, available_actions, sid, explore, code)
           r   == r_
           d   == TDError(q_vals, r, s, a, sid, a2, discount)
           eb  == TraceBump(e_vals, s, a, trace_type, learning_rate)
       IN  /\ action_repeat_manager' =
                 RepeatSet(RepeatNextState(action_repeat_manager), a2,
                           FrameRepeats(n_frames_per_action))
           /\ q_vals' = QUpdate(q_vals, learning_rate, d, eb)
           /\ e_vals' = EDecay(eb, discount, lambda_v)
           /\ s_' = sid
           /\ a_' = a2
           /\ r_' = 0
           /\ last' = Call("select_action", v, TRUE, s, a, r, sid, a2, d,
                           explore, a2, hist)
    /\ hist' = <<>>
    /\ ncalls' = ncalls + 1
    /\ nlearn' = nlearn + 1
    /\ UNCHANGED <<trace_type, learning_rate, discount, lambda_v,
                   n_frames_per_action, available_actions, legal_actions,
                   nrewards, caps, indexVars, posVars>>

----------------------------------------------------------------------------
(* util/pongcess.py: Positions and RelativeBall *)

PLAY_AREA_TOP == 34
PLAY_AREA_BOTTOM == 194
AGENT_X == 140
OPPONENT_X == 19
FRAME_WIDTH == 160

\* np.arange(0, PLAY_AREA_BOTTOM - PLAY_AREA_TOP)
Y_RANGE == 0..(PLAY_AREA_BOTTOM - PLAY_AREA_TOP - 1)

RECURSIVE SumSet(_)
SumSet(S) ==
    IF S = {} THEN 0 ELSE LET x == CHOOSE y \in S : TRUE IN x + SumSet(S \ {x})

\* Crop keeping the raw frame's row numbers
CropMissing(pixels) == pixels

\* frame[PLAY_AREA_TOP:PLAY_AREA_BOTTOM], on the pixels <<x, y>> of one colour:
\* rows outside the play area are dropped, the others renumbered from 0
Crop(pixels) ==
    {<<p[1], p[2] - PLAY_AREA_TOP>> :
        p \in {q \in pixels : PLAY_AREA_TOP <= q[2] /\ q[2] < PLAY_AREA_BOTTOM}}

\* int(np.average(indices)) raises ValueError for no index (int of nan)
ValueError == -3

\* get_mean_pos_1d: present holds the positions of the array that match;
\* idx is np.arange(len(array), dtype=np.uint8)
GetMeanPos1d(present) ==
    IF present = {} THEN ValueError
    ELSE SumSet({i % 256 : i \in present}) \div Cardinality(present)

\* _update_agent: frame[:, AGENT_X] == AGENT_COLOR
UpdateAgent(old, pixels) ==
    LET m == GetMeanPos1d({p[2] : p \in {q \in pixels : q[1] = AGENT_X}})
    IN  IF m = ValueError THEN old ELSE m

\* _update_opponent: frame[:, OPPONENT_X] == OPPONENT_COLOR
UpdateOpponent(old, pixels) ==
    LET m == GetMeanPos1d({p[2] : p \in {q \in pixels : q[1] = OPPONENT_X}})
    IN  IF m = ValueError THEN old ELSE m

\* UpdateBall putting the initial position back when the ball is not drawn
UpdateBallResets(old, pixels) ==
    LET x == GetMeanPos1d({p[1] : p \in pixels})
        y == GetMeanPos1d({p[2] : p \in pixels})
    IN  IF x = ValueError \/ y = ValueError THEN <<0, 0>> ELSE <<x, y>>

\* _update_ball: the columns and the rows that hold a BALL_COLOR pixel
UpdateBall(old, pixels) ==
    LET x == GetMeanPos1d({p[1] : p \in pixels})
        y == GetMeanPos1d({p[2] : p \in pixels})
    IN  IF x = ValueError \/ y = ValueError THEN old ELSE <<x, y>>

\* RelativeBall.enumerate_states: list(set([b-p for p in Y_RANGE for b in
\* Y_RANGE])), listed here in ascending order
RelativeBallStates == {b - p : b \in Y_RANGE, p \in Y_RANGE}
RelativeBallEnumerateStates ==
    LET lo == CHOOSE x \in RelativeBallStates :
                \A y \in RelativeBallStates : x <= y
    IN  [i \in 1..Cardinality(RelativeBallStates) |-> lo + i - 1]

\* Positions.__init__
InitPositions ==
    /\ ball = <<0, 0>>
    /\ agent = 0
    /\ opponent = 0
    /\ feature_value = 0
    /\ seen = [ball |-> {}, agent |-> {}, opponent |-> {}]
    /\ missed = [ball |-> FALSE, agent |-> FALSE, opponent |-> FALSE]

\* Frames: the pixels of each object's colour in the raw 210x160 frame.  An
\* object is absent, or drawn from one of three rows (the row above the play
\* area, its first row, its last row) downwards: the agent and the ball
\* 1..MaxSprite rows high, the opponent one row high.
SpriteRows ==
    {a..(a + h - 1) : a \in {PLAY_AREA_TOP - 1, PLAY_AREA_TOP,
                             PLAY_AREA_BOTTOM - 1},
                      h \in 1..MaxSprite}
AgentPixels ==
    {{}} \cup {(AGENT_X..(AGENT_X + 3)) \X rows : rows \in SpriteRows}
OpponentPixels ==
    {{}} \cup {((OPPONENT_X - 3)..OPPONENT_X) \X {row} :
                row \in {PLAY_AREA_TOP - 1, PLAY_AREA_TOP,
                         PLAY_AREA_BOTTOM - 1}}
BallPixels ==
    {{}} \cup {cols \X rows :
                cols \in {0..1, (FRAME_WIDTH - 1)..(FRAME_WIDTH - 1)},
                rows \in SpriteRows}
Frames == [agent : AgentPixels, opponent : OpponentPixels, ball : BallPixels]

\* StateIndex(RelativeBall(...)).process(): Positions.update on the frame,
\* then the ball's y minus the agent's y, then the index of that value
RelativeBallProcess(frame) ==
    /\ state2index # None
    /\ LET a == Crop(frame.agent)
           o == Crop(frame.opponent)
           b == Crop(frame.ball)
           seenA == {p \in a : p[1] = AGENT_X}
           seenO == {p \in o : p[1] = OPPONENT_X}
           agent2 == UpdateAgent(agent, a)
           ball2 == UpdateBall(ball, b)
       IN  /\ agent' = agent2
           /\ opponent' = UpdateOpponent(opponent, o)
           /\ ball' = ball2
           /\ feature_value' = ball2[2] - agent2
           /\ seen' = [agent |-> IF seenA = {} THEN seen.agent ELSE seenA,
                       opponent |-> IF seenO = {} THEN seen.opponent
                                    ELSE seenO,
                       ball |-> IF b = {} THEN seen.ball ELSE b]
           /\ missed' = [agent |-> seenA = {}, opponent |-> seenO = {},
                         ball |-> b = {}]
           /\ last' = [NoCall("process") EXCEPT
                         !.v = ball2[2] - agent2,
                         !.ret = StateIndexProcess(state2index,
                                                   ball2[2] - agent2)]
    /\ UNCHANGED <<q_vals, e_vals, s_, a_, r_, trace_type, learning_rate,
                   discount, lambda_v, n_frames_per_action,
                   action_repeat_manager, available_actions, legal_actions,
                   hist, ncalls, nlearn, nrewards, caps, indexVars,
                   interceptVars>>

----------------------------------------------------------------------------------------------------------------------------------------
(* util/pongcess.py: BallIntercept.  Its numpy floats are exact rationals  *)
(* <<n, d>> with d > 0, extended by inf = <<1, 0>>, -inf = <<-1, 0>> and   *)
(* nan = <<0, 0>>, which is what a division by zero yields (numpy warns    *)
(* and goes on).  The sign of a zero is not kept: it decides whether a     *)
(* division gives inf or -inf, and both fall outside every range test.     *)

FNaN == <<0, 0>>
Sgn(i) == IF i > 0 THEN 1 ELSE IF i < 0 THEN -1 ELSE 0
IsNaN(x) == x = FNaN
IsFinite(x) == x[2] # 0

FNeg(x) == <<-x[1], x[2]>>

FAdd(x, y) ==
    IF IsFinite(x) /\ IsFinite(y) THEN RAdd(x, y)
    ELSE IF IsNaN(x) \/ IsNaN(y) THEN FNaN
    ELSE IF IsFinite(y) THEN x
    ELSE IF IsFinite(x) THEN y
    ELSE IF x = y THEN x ELSE FNaN

FSub(x, y) == FAdd(x, FNeg(y))

FMul(x, y) ==
    IF IsFinite(x) /\ IsFinite(y) THEN RMul(x, y)
    ELSE IF IsNaN(x) \/ IsNaN(y) THEN FNaN
    ELSE <<Sgn(x[1]) * Sgn(y[1]), 0>>

FDiv(x, y) ==
    IF IsNaN(x) \/ IsNaN(y) THEN FNaN
    ELSE IF ~IsFinite(y) THEN (IF IsFinite(x) THEN Zero ELSE FNaN)
    ELSE IF y[1] = 0 THEN <<Sgn(x[1]), 0>>
    ELSE IF ~IsFinite(x) THEN <<Sgn(x[1]) * Sgn(y[1]), 0>>
    ELSE RMul(x, IF y[1] < 0 THEN <<-y[2], -y[1]>> ELSE <<y[2], y[1]>>)

\* a comparison with nan is false
FLess(x, y) ==
    IF IsNaN(x) \/ IsNaN(y) THEN FALSE
    ELSE IF IsFinite(x) /\ IsFinite(y) THEN RLess(x, y)
    ELSE IF IsFinite(x) THEN y[1] > 0
    ELSE IF IsFinite(y) THEN x[1] < 0
    ELSE x[1] < y[1]

FLeq(x, y) == ~IsNaN(x) /\ ~IsNaN(y) /\ (x = y \/ FLess(x, y))

\* int(x) of a finite float: towards zero
FInt(x) == IF x[1] >= 0 THEN x[1] \div x[2] ELSE -((-x[1]) \div x[2])

\* pos + a*vel on both coordinates
FAlong(pos, a, v) ==
    <<FAdd(pos[1], FMul(a, v[1])), FAdd(pos[2], FMul(a, v[2]))>>

LEFT == 0
TOP == 1
RIGHT == 2
BOTTOM == 3

\* top_bottom_intercept(pos, vel)
TopBottomIntercept(pos, v) ==
    LET reflected_vel == <<v[1], FNeg(v[2])>>
    IN  IF FLess(Zero, v[2])
        THEN [ball |-> FAlong(pos, FDiv(FSub(Int2R(PLAY_AREA_BOTTOM), pos[2]),
                                        v[2]), v),
              vel |-> reflected_vel, edge |-> BOTTOM]
        ELSE [ball |-> FAlong(pos, FDiv(FSub(Int2R(PLAY_AREA_TOP), pos[2]),
                                        v[2]), v),
              vel |-> reflected_vel, edge |-> TOP]

\* whether PLAY_AREA_TOP <= y <= PLAY_AREA_BOTTOM
InPlayArea(y) ==
    FLeq(Int2R(PLAY_AREA_TOP), y) /\ FLeq(y, Int2R(PLAY_AREA_BOTTOM))

\* NextIntercept testing the top and bottom edges before the side edges
NextInterceptTopBottomFirst(pos, v) ==
    LET reflected_vel == <<FNeg(v[1]), v[2]>>
        towards == IF FLess(Zero, v[2]) THEN PLAY_AREA_BOTTOM
                   ELSE PLAY_AREA_TOP
        there == FAlong(pos, FDiv(FSub(Int2R(towards), pos[2]), v[2]), v)
    IN  IF FLeq(Int2R(OPPONENT_X), there[1]) /\ FLeq(there[1], Int2R(AGENT_X))
        THEN TopBottomIntercept(pos, v)
        ELSE IF FLess(v[1], Zero)
        THEN [ball |-> FAlong(pos, FDiv(FSub(Int2R(OPPONENT_X), pos[1]),
                                        v[1]), v),
              vel |-> reflected_vel, edge |-> LEFT]
        ELSE [ball |-> FAlong(pos, FDiv(FSub(Int2R(AGENT_X), pos[1]),
                                        v[1]), v),
              vel |-> reflected_vel, edge |-> RIGHT]

\* next_intercept(pos, vel)
NextIntercept(pos, v) ==
    LET reflected_vel == <<FNeg(v[1]), v[2]>>
    IN  IF FLess(v[1], Zero)
        THEN LET intercept ==
                    FAlong(pos, FDiv(FSub(Int2R(OPPONENT_X), pos[1]), v[1]), v)
             IN  IF InPlayArea(intercept[2])
                 THEN [ball |-> intercept, vel |-> reflected_vel,
                       edge |-> LEFT]
                 ELSE TopBottomIntercept(pos, v)
        ELSE LET intercept ==
                    FAlong(pos, FDiv(FSub(Int2R(AGENT_X), pos[1]), v[1]), v)
             IN  IF InPlayArea(intercept[2])
                 THEN [ball |-> intercept, vel |-> reflected_vel,
                       edge |-> RIGHT]
                 ELSE TopBottomIntercept(pos, v)

\* BallIntercept.__init__: last_ball = play_area_size / 2
BallInterceptInit ==
    /\ last_ball = <<Norm(AGENT_X - OPPONENT_X, 2),
                     Norm(PLAY_AREA_BOTTOM - PLAY_AREA_TOP, 2)>>
    /\ pc = "idle"
    /\ bi_ball = <<Zero, Zero>>
    /\ vel = <<Zero, Zero>>
    /\ edge = -1
    /\ bounce = [pos |-> <<Zero, Zero>>, vel |-> <<Zero, Zero>>]
    /\ iter = 0

\* Frames for BallIntercept: one ball pixel at one of BallSamples x
\* BallSamples positions spread over the frame's columns and the play area's
\* rows, or no ball; the paddles are left out
SampleXs == {(i * FRAME_WIDTH) \div (BallSamples + 1) : i \in 1..BallSamples}
SampleYs ==
    {(i * (PLAY_AREA_BOTTOM - PLAY_AREA_TOP)) \div (BallSamples + 1)
        - (PLAY_AREA_BOTTOM - PLAY_AREA_TOP) \div 8 : i \in 1..BallSamples}
BallFrames ==
    [agent : {{}}, opponent : {{}},
     ball : {{}} \cup {{<<x, PLAY_AREA_TOP + y>>} :
                          x \in SampleXs, y \in SampleYs}]

\* BallIntercept.process() up to the while loop: Positions.update on the
\* frame, vel = ball - last_ball, last_ball = ball, edge = -1
BallInterceptProcess(frame) ==
    /\ pc = "idle"
    /\ LET b == Crop(frame.ball)
           ball2 == UpdateBall(ball, b)
           fball == <<Int2R(ball2[1]), Int2R(ball2[2])>>
       IN  /\ agent' = UpdateAgent(agent, Crop(frame.agent))
           /\ opponent' = UpdateOpponent(opponent, Crop(frame.opponent))
           /\ ball' = ball2
           /\ seen' = [seen EXCEPT !.ball = IF b = {} THEN @ ELSE b]
           /\ missed' = [agent |-> TRUE, opponent |-> TRUE, ball |-> b = {}]
           /\ bi_ball' = fball
           /\ vel' = <<FSub(fball[1], last_ball[1]),
                       FSub(fball[2], last_ball[2])>>
           /\ last_ball' = fball
    /\ edge' = -1
    /\ pc' = "loop"
    /\ iter' = 0
    /\ last' = NoCall("process")
    /\ UNCHANGED <<q_vals, e_vals, s_, a_, r_, trace_type, learning_rate,
                   discount, lambda_v, n_frames_per_action,
                   action_repeat_manager, available_actions, legal_actions,
                   hist, ncalls, nlearn, nrewards, caps, indexVars,
                   feature_value, bounce>>

\* whether finite x lies more than Horizon away from 0
Far(x) == IsFinite(x) /\ (RLess(Int2R(Horizon), x) \/ RLess(x, Int2R(-Horizon)))

\* one turn of `while edge != self.RIGHT`
BallInterceptBounce ==
    /\ pc = "loop"
    /\ edge # RIGHT
    /\ LET next == NextIntercept(bi_ball, vel)
       IN  /\ bi_ball' = next.ball
           /\ vel' = next.vel
           /\ edge' = next.edge
           /\ pc' = IF Far(next.ball[1]) \/ Far(next.ball[2]) THEN "far"
                    ELSE pc
    /\ bounce' = [pos |-> bi_ball, vel |-> vel]
    /\ iter' = 1 - iter
    /\ UNCHANGED <<q_vals, e_vals, s_, a_, r_, trace_type, learning_rate,
                   discount, lambda_v, n_frames_per_action,
                   action_repeat_manager, available_actions, legal_actions,
                   last, hist, ncalls, nlearn, nrewards, caps, indexVars, ball,
                   agent, opponent, feature_value, seen, missed, last_ball>>

\* return int(ball[1])
BallInterceptReturn ==
    /\ pc = "loop"
    /\ edge = RIGHT
    /\ pc' = "idle"
    /\ feature_value' = FInt(bi_ball[2])
    /\ last' = [NoCall("process") EXCEPT !.v = FInt(bi_ball[2]), !.ret = 0]
    /\ UNCHANGED <<q_vals, e_vals, s_, a_, r_, trace_type, learning_rate,
                   discount, lambda_v, n_frames_per_action,
                   action_repeat_manager, available_actions, legal_actions,
                   hist, ncalls, nlearn, nrewards, caps, indexVars, ball,
                   agent, opponent, seen, missed, last_ball, bi_ball, vel,
                   edge, bounce, iter>>

\* Feature.enumerate_states, which BallIntercept inherits
NotImplementedError == -4

\* StateIndex(BallIntercept(...)): __init__ asks the feature for its states
StateIndexOverBallIntercept ==
    /\ pc = "idle"
    /\ state2index = None
    /\ last' = [NoCall("StateIndex.__init__") EXCEPT
                    !.ret = NotImplementedError]
    /\ UNCHANGED <<q_vals, e_vals, s_, a_, r_, trace_type, learning_rate,
                   discount, lambda_v, n_frames_per_action,
                   action_repeat_manager, available_actions, legal_actions,
                   hist, ncalls, nlearn, nrewards, caps, indexVars, posVars>>

----------------------------------------------------------------------------
(* The agent in the episode loop: construction, set_raw_state_callbacks,   *)
(* set_available_actions, then select_action, receive_reward and           *)
(* on_episode_end in any order.  The wrapped feature only produces values  *)
(* it enumerates.                                                          *)

Half == <<1, 2>>

\* any trace rule and frame-skip count, tables of NStates x NActions
InitMain ==
    InitSarsa(Half, Half, Half, TraceTypes, 1..MaxFrames,
              FeatureList(NStates), ActionList(NActions),
              [calls |-> MaxCalls, learn |-> MaxLearn, rewards |-> MaxRewards])

\* the scenario with 5 states, 2 actions, learning_rate 0.1, discount 0.9,
\* lambda 0.5 and replacing traces, carried one call further so that a
\* learning step bootstraps from an entry of Q that is no longer zero
InitExample ==
    InitSarsa(<<1, 10>>, <<9, 10>>, Half, {"replacing"}, {1},
              FeatureList(5), ActionList(2),
              [calls |-> 3, learn |-> 3, rewards |-> 2])

Init ==
    /\ InitMain \/ InitExample
    /\ InitPositions
    /\ BallInterceptInit

Next ==
    \/ SetRawStateCallbacks
    \/ SetAvailableActions
    \/ \E reward \in Rewards : ReceiveReward(reward)
    \/ OnEpisodeEnd
    \/ \E v \in Range(feature_states) : SelectActionSkip(v)
    \/ \E v \in Range(feature_states) : SelectActionLearn(v, FALSE, NoneInt)
    \/ \E v \in Range(feature_states) :
          \E code \in RandomActions(available_actions) :
            SelectActionLearn(v, TRUE, code)

Spec == Init /\ [][Next]_vars

----------------------------------------------------------------------------
(* BallIntercept on one frame after another.  The while loop of process()  *)
(* keeps running until its test fails, which is the fairness stated: a     *)
(* turn of the loop that stays possible is taken, and so is the return.    *)

\* a turn of the while loop as far as control goes; what the turn computes
\* is BallInterceptBounce's
LoopTurn == pc = "loop" /\ edge # RIGHT /\ iter' = 1 - iter

InitBallIntercept ==
    /\ InitSarsa(Half, Half, Half, {"replacing"}, {1}, <<>>,
                 ActionList(NActions),
                 [calls |-> 0, learn |-> 0, rewards |-> 0])
    /\ InitPositions
    /\ BallInterceptInit

NextBallIntercept ==
    \/ \E frame \in BallFrames : BallInterceptProcess(frame)
    \/ BallInterceptBounce
    \/ BallInterceptReturn
    \/ StateIndexOverBallIntercept

SpecBallIntercept ==
    /\ InitBallIntercept
    /\ [][NextBallIntercept]_vars
    /\ WF_iter(LoopTurn)
    /\ WF_vars(BallInterceptReturn)

----------------------------------------------------------------------------
(* Setup alone, for a feature that lists any number of values down to      *)
(* none and an environment that hands over any number of legal actions     *)
(* down to none.                                                           *)

InitSetup ==
    /\ \E n \in 0..NStates : \E k \in 0..NActions :
          InitSarsa(Half, Half, Half, TraceTypes, 1..MaxFrames,
                    FeatureList(n), ActionList(k),
                    [calls |-> 0, learn |-> 0, rewards |-> 0])
    /\ InitPositions
    /\ BallInterceptInit

NextSetup ==
    \/ SetRawStateCallbacks
    \/ SetAvailableActions

SpecSetup == InitSetup /\ [][NextSetup]_vars

----------------------------------------------------------------------------
(* The episode loop with replacing traces, for discounts and trace decays  *)
(* from 0 to 1, both ends included, and one update every MaxFrames calls.  *)

DecayRates == {Zero, Half, One}

InitTraces ==
    /\ \E disc \in DecayRates : \E lam \in DecayRates :
          InitSarsa(Half, disc, lam, {"replacing"}, {MaxFrames},
                    FeatureList(NStates), ActionList(NActions),
                    [calls |-> MaxCalls, learn |-> MaxLearn,
                     rewards |-> MaxRewards])
    /\ InitPositions
    /\ BallInterceptInit

SpecTraces == InitTraces /\ [][Next]_vars

----------------------------------------------------------------------------
(* The perception pipeline alone: StateIndex(RelativeBall(...)) built by   *)
(* set_raw_state_callbacks, then process() on one frame after another.     *)

InitPos ==
    /\ InitSarsa(Half, Half, Half, {"replacing"}, {1},
                 RelativeBallEnumerateStates, ActionList(NActions),
                 [calls |-> 0, learn |-> 0, rewards |-> 0])
    /\ InitPositions
    /\ BallInterceptInit

NextPos ==
    \/ SetRawStateCallbacks
    \/ \E frame \in Frames : RelativeBallProcess(frame)

SpecPos == InitPos /\ [][NextPos]_vars

----------------------------------------------------------------------------
(* StateIndex alone, around any feature: the feature lists its values in   *)
(* some order, each value once (as RelativeBall does through set(), and    *)
(* Positions through a product of ranges), and may emit any value.         *)

IndexValues == -2..1

EnumLists ==
    {s \in UNION {[1..n -> IndexValues] : n \in 0..MaxEnum} :
        \A i, j \in DOMAIN s : i # j => s[i] # s[j]}

\* StateIndex.process() when the wrapped feature's process() returns v
IndexProcess(v) ==
    /\ state2index # None
    /\ last' = [NoCall("process") EXCEPT
                    !.v = v, !.ret = StateIndexProcess(state2index, v)]
    /\ UNCHANGED <<q_vals, e_vals, s_, a_, r_, trace_type, learning_rate,
                   discount, lambda_v, n_frames_per_action,
                   action_repeat_manager, available_actions, legal_actions,
                   hist, ncalls, nlearn, nrewards, caps, indexVars, posVars>>

\* StateIndex.enumerate_states(); ret is the length of the list returned
IndexEnumerateStates ==
    /\ state2index # None
    /\ last' = [NoCall("enumerate_states") EXCEPT
                    !.ret = Cardinality(StateIndexEnumerateStates(state2index))]
    /\ UNCHANGED <<q_vals, e_vals, s_, a_, r_, trace_type, learning_rate,
                   discount, lambda_v, n_frames_per_action,
                   action_repeat_manager, available_actions, legal_actions,
                   hist, ncalls, nlearn, nrewards, caps, indexVars, posVars>>

InitIndex ==
    /\ \E fs \in EnumLists :
         InitSarsa(Half, Half, Half, {"replacing"}, {1}, fs,
                   ActionList(NActions),
                   [calls |-> 0, learn |-> 0, rewards |-> 0])
    /\ InitPositions
    /\ BallInterceptInit

NextIndex ==
    \/ SetRawStateCallbacks
    \/ \E v \in IndexValues : IndexProcess(v)
    \/ IndexEnumerateStates

SpecIndex == InitIndex /\ [][NextIndex]_vars

----------------------------------------------------------------------------
(* The agent around a fixture feature that may also emit values its        *)
(* enumerate_states() does not list.                                       *)

OutOfDomain(fs) == {Len(fs), -Len(fs)}

FixtureOutputs == Range(feature_states) \cup OutOfDomain(feature_states)

InitFixture ==
    /\ InitSarsa(Half, Half, Half, {"replacing"}, 1..MaxFrames,
                 FeatureList(NStates), ActionList(NActions),
                 [calls |-> MaxCalls, learn |-> MaxLearn,
                  rewards |-> MaxRewards])
    /\ InitPositions
    /\ BallInterceptInit

NextFixture ==
    \/ SetRawStateCallbacks
    \/ SetAvailableActions
    \/ \E reward \in Rewards : ReceiveReward(reward)
    \/ OnEpisodeEnd
    \/ \E v \in FixtureOutputs : SelectActionRaise(v)
    \/ \E v \in FixtureOutputs : SelectActionSkip(v)
    \/ \E v \in FixtureOutputs : SelectActionLearn(v, FALSE, NoneInt)
    \/ \E v \in FixtureOutputs, code \in RandomActions(available_actions) :
          SelectActionLearn(v, TRUE, code)

SpecFixture == InitFixture /\ [][NextFixture]_vars

----------------------------------------------------------------------------
(* What the last call was *)

Learned == last.op = "select_action" /\ last.update
Skipped ==
    last.op = "select_action" /\ ~last.update /\ last.ret # KeyError
Raised == last.op = "select_action" /\ last.ret = KeyError

RECURSIVE SumRewards(_)
SumRewards(h) == IF h = <<>> THEN 0 ELSE h[1][1] + SumRewards(Tail(h))

Decay == RMul(discount, lambda_v)

----------------------------------------------------------------------------
(* C1: in every learning select_action call, the reward r that enters the  *)
(* TD error is the sum of all rewards passed to receive_reward since the   *)
(* previous learning call (or since construction), whatever calls were     *)
(* interleaved; none is dropped or overwritten.                            *)
C1_RewardSummation ==
    Learned =>
        /\ last.r = SumRewards(last.rewards)
        /\ last.d = RSub(RAdd(Int2R(SumRewards(last.rewards)),
                              RMul(discount, last.pre.q[last.s2][last.a2])),
                         last.pre.q[last.pre.s][last.pre.a])

\* two rewards of 1, one before and one after a frame-skipped call, summed
C1_Witness ==
    /\ Learned
    /\ Len(last.rewards) = 2
    /\ last.rewards[1][2] # last.rewards[2][2]
    /\ last.r = 2

(* C2: with n_frames_per_action = k, exactly one of every k select_action  *)
(* calls runs the table update; each other call returns the action of the  *)
(* most recent updating call and leaves q_vals, e_vals, the pending pair   *)
(* and the reward accumulator unchanged.                                   *)
C2_FrameSkip ==
    /\ nlearn = (ncalls + n_frames_per_action - 1) \div n_frames_per_action
    /\ Skipped =>
        /\ last.ret = a_
        /\ q_vals = last.pre.q
        /\ e_vals = last.pre.e
        /\ s_ = last.pre.s
        /\ a_ = last.pre.a
        /\ r_ = last.pre.r

\* k = 2: an updating call, a skipped call, and the next updating call
C2_Witness ==
    /\ n_frames_per_action = 2
    /\ ncalls = 3
    /\ nlearn = 2
    /\ Learned

(* C3: after the first select_action call q_vals and e_vals are still all  *)
(* zero, for every trace rule.                                             *)
C3_FirstCallNoUpdate ==
    ncalls = 1 => AllZero(q_vals) /\ AllZero(e_vals)

(* C4: a learning step with previous pair (s, a) changes E[s, a] by the    *)
(* configured rule before the Q update (accumulating: E[s,a] + 1;          *)
(* replacing: 1; dutch: E[s,a]*(1 - learning_rate) + 1) and bumps no other *)
(* entry of E.                                                             *)
C4_TraceRule ==
    Learned /\ trace_type \in {"accumulating", "replacing", "dutch"} =>
        LET old == last.pre.e[last.s][last.a]
            bumped ==
                CASE trace_type = "accumulating" -> RAdd(old, One)
                  [] trace_type = "replacing" -> One
                  [] trace_type = "dutch" ->
                        RAdd(RMul(old, RSub(One, learning_rate)), One)
        IN  /\ \A s \in DOMAIN e_vals : \A a \in DOMAIN e_vals[s] :
                e_vals[s][a] =
                    RMul(IF s = last.s /\ a = last.a
                         THEN bumped ELSE last.pre.e[s][a],
                         Decay)
            /\ q_vals[last.s][last.a] =
                    RAdd(last.pre.q[last.s][last.a],
                         RMul(RMul(learning_rate, last.d), bumped))

\* dutch, second visit of the same pair: (1/4)*(1 - 1/2) + 1 = 9/8, decayed
C4_Witness ==
    /\ trace_type = "dutch"
    /\ nlearn = 2
    /\ Learned
    /\ e_vals[last.s][last.a] = <<9, 32>>

(* C5: a learning step computes d = r + discount*Q[s',a'] - Q[s,a] from Q  *)
(* as it was before the step, then adds learning_rate*d*E to every entry   *)
(* of Q with E as bumped at (s, a), then multiplies every entry of E by    *)
(* discount*lambda.  In the example (5 states, 2 actions, 0.1, 0.9, 0.5,   *)
(* replacing, pair (0,0), r = 1, s' = 2, Q all zero) d = 1, Q[0,0] = 0.1   *)
(* and E[0,0] = 0.45.                                                      *)
C5_TDUpdate ==
    Learned =>
        LET q0 == last.pre.q
            d  == RSub(RAdd(Int2R(last.pre.r),
                            RMul(discount, q0[last.s2][last.a2])),
                       q0[last.pre.s][last.pre.a])
            eb == TraceBump(last.pre.e, last.pre.s, last.pre.a, trace_type,
                            learning_rate)
        IN  /\ last.d = d
            /\ \A s \in DOMAIN q_vals : \A a \in DOMAIN q_vals[s] :
                /\ q_vals[s][a] =
                      RAdd(q0[s][a], RMul(RMul(learning_rate, d), eb[s][a]))
                /\ eb[s][a] = Zero => q_vals[s][a] = q0[s][a]
                /\ e_vals[s][a] = RMul(eb[s][a], Decay)
            /\ (/\ learning_rate = <<1, 10>>
                /\ discount = <<9, 10>>
                /\ lambda_v = <<1, 2>>
                /\ trace_type = "replacing"
                /\ AllZero(q0)
                /\ last.pre.s = 0 /\ last.pre.a = 0 /\ last.pre.r = 1
                /\ last.s2 = 2)
               => /\ d = One
                  /\ q_vals[0][0] = <<1, 10>>
                  /\ e_vals[0][0] = <<9, 20>>

\* the example's second call, with the greedy a' = argmax Q[2,:] = 0
C5_Witness ==
    /\ learning_rate = <<1, 10>>
    /\ ncalls = 2
    /\ Learned /\ ~last.explore
    /\ last.s = 0 /\ last.a = 0 /\ last.r = 1 /\ last.s2 = 2 /\ last.a2 = 0
    /\ last.d = One
    /\ q_vals[0][0] = <<1, 10>>
    /\ e_vals[0][0] = <<9, 20>>

(* C6: the reward accumulator is set to 0 by each learning step, after the *)
(* TD error has read it, and by nothing else: a frame-skipped call and     *)
(* on_episode_end leave it alone, receive_reward adds to it.               *)
C6_AccumulatorReset ==
    /\ Learned => r_ = 0 /\ last.r = last.pre.r
    /\ last.op = "receive_reward" => r_ = last.pre.r + last.v
    /\ Skipped => r_ = last.pre.r
    /\ last.op = "on_episode_end" => r_ = last.pre.r

\* a learning step that found a non-zero sum and drained it
C6_Witness ==
    /\ Learned
    /\ last.r = -2
    /\ r_ = 0
    /\ nlearn = 2

----------------------------------------------------------------------------
(* C7: for any wrapped feature, StateIndex gives every value the feature   *)
(* lists an index that no other value has, that stays the same for the     *)
(* lifetime of the StateIndex, and that lies in 0..N-1, N being the number *)
(* of values listed.                                                       *)

----------------------------------------------------------------------------
(* C8: when the feature emits a value that enumerate_states() does not     *)
(* list, StateIndex.process raises instead of answering some index, and    *)
(* the select_action call it was made from leaves Q, E, the pending pair   *)
(* and the reward accumulator as it found them.                            *)

C8_OutOfDomainRaises ==
    (/\ last.op = "select_action"
     /\ last.v \notin StateIndexEnumerateStates(state2index)) =>
        /\ last.ret = KeyError
        /\ ~last.update
        /\ q_vals = last.pre.q
        /\ e_vals = last.pre.e
        /\ s_ = last.pre.s
        /\ a_ = last.pre.a
        /\ r_ = last.pre.r

C8_Witness ==
    /\ Raised
    /\ last.v \in OutOfDomain(feature_states)
    /\ nlearn >= 1
    /\ r_ # 0
    /\ ~AllZero(e_vals)

----------------------------------------------------------------------------
(* C9: the value RelativeBall.process() returns (ball y minus agent y) is  *)
(* always one that enumerate_states() lists, so StateIndex finds it; this  *)
(* includes frames that lack the ball or the paddle, and the positions     *)
(* Positions starts from.                                                  *)

C9_RelativeBallInDomain ==
    /\ ball[2] - agent \in Range(feature_states)
    /\ last.op = "process" =>
          /\ last.v = ball[2] - agent
          /\ last.v \in StateIndexEnumerateStates(state2index)
          /\ last.ret # KeyError
          /\ 0 <= last.ret
          /\ last.ret < Len(feature_states)

C9_Witness ==
    /\ last.op = "process"
    /\ missed.ball
    /\ seen.ball = {}
    /\ ~missed.agent
    /\ last.v = -(PLAY_AREA_BOTTOM - PLAY_AREA_TOP - 1)
    /\ last.ret = 0

----------------------------------------------------------------------------
(* C10: Positions.update holds the last value: each of ball, agent and     *)
(* opponent is the centroid of the object's pixels in the most recent      *)
(* frame that showed it (the initial value if none did); a frame without   *)
(* an object raises nothing and does not keep the others from updating.    *)

Mean(S) == SumSet(S) \div Cardinality(S)

C10_HoldLastValue ==
    /\ agent = IF seen.agent = {} THEN 0
               ELSE Mean({p[2] : p \in seen.agent})
    /\ opponent = IF seen.opponent = {} THEN 0
                  ELSE Mean({p[2] : p \in seen.opponent})
    /\ ball = IF seen.ball = {} THEN <<0, 0>>
              ELSE <<Mean({p[1] : p \in seen.ball}),
                     Mean({p[2] : p \in seen.ball})>>
    /\ last.op = "process" => last.ret # ValueError

C10_Witness ==
    /\ last.op = "process"
    /\ missed.ball
    /\ ~missed.agent
    /\ missed.opponent
    /\ seen.ball # {}
    /\ ball[1] = FRAME_WIDTH - 1
    /\ agent = PLAY_AREA_BOTTOM - PLAY_AREA_TOP - 1
    /\ opponent = 0
    /\ seen.opponent # {}

----------------------------------------------------------------------------
(* C11: every value select_action returns, from the greedy branch, from    *)
(* the random branch and on a frame-skipped call, is an index i with       *)
(* 0 <= i < M into the list given to set_available_actions; on the random  *)
(* branch it is the index of the action that was drawn from that list.     *)

C11_ActionIndexInRange ==
    (last.op = "select_action" /\ last.ret # KeyError) =>
        /\ 0 <= last.ret
        /\ last.ret < Len(available_actions)
        /\ last.ret = a_
        /\ (Learned /\ last.explore) =>
              available_actions[last.ret + 1] \in Range(legal_actions)

\* the last action of the list, drawn at random and then repeated on a
\* frame-skipped call
C11_Witness ==
    /\ Skipped
    /\ last.ret = Len(available_actions) - 1
    /\ last.ret > 0

----------------------------------------------------------------------------
(* C12: after on_episode_end every entry of the eligibility table E is     *)
(* zero, so the next episode's first learning step finds E all zero.       *)

C12_EpisodeEndResetsE ==
    last.op = "on_episode_end" => AllZero(e_vals)

----------------------------------------------------------------------------
(* C13: BallIntercept.process terminates for every pair of consecutive     *)
(* ball positions, a ball that stood still or moved only vertically        *)
(* included: once the bounce loop is entered it reaches the RIGHT edge and *)
(* process returns.  (Runs the model leaves at the Horizon count as ended.) *)

C13_ProcessTerminates == (pc = "loop") ~> (pc # "loop")

----------------------------------------------------------------------------
(* C14: RelativeBall and BallIntercept both supply a complete finite       *)
(* enumerate_states(), so StateIndex can be constructed over either and    *)
(* finds every value their process() returns.  For BallIntercept: the      *)
(* construction of StateIndex over it succeeds and yields a mapping.       *)

C14_BothFeaturesEnumerate ==
    last.op = "StateIndex.__init__" =>
        /\ last.ret # NotImplementedError
        /\ state2index # None

----------------------------------------------------------------------------
(* C19: each next_intercept call tests the side plane the ball is heading  *)
(* to first (the opponent's when vel_x < 0, the agent's otherwise): if the *)
(* path crosses it at a y in [PLAY_AREA_TOP, PLAY_AREA_BOTTOM] that side   *)
(* edge is reported and only the x-velocity changes sign; only otherwise a *)
(* top/bottom edge is reported (bottom when vel_y > 0, else top) and only  *)
(* the y-velocity changes sign.  process returns only after RIGHT.         *)

C19_SideEdgeFirst ==
    LET p == bounce.pos
        v == bounce.vel
        left == FLess(v[1], Zero)
        plane == IF left THEN OPPONENT_X ELSE AGENT_X
        crossY == FAdd(p[2], FMul(FDiv(FSub(Int2R(plane), p[1]), v[1]), v[2]))
    IN  /\ edge # -1 =>
              IF InPlayArea(crossY)
              THEN /\ edge = IF left THEN LEFT ELSE RIGHT
                   /\ vel = <<FNeg(v[1]), v[2]>>
                   /\ bi_ball[2] = crossY
              ELSE /\ edge = IF FLess(Zero, v[2]) THEN BOTTOM ELSE TOP
                   /\ vel = <<v[1], FNeg(v[2])>>
        /\ (pc = "idle" /\ last.op = "process") =>
              /\ edge = RIGHT
              /\ last.v = FInt(bi_ball[2])

\* the opponent's plane is crossed inside the play area on a path that
\* would also have reached the bottom edge
C19_Witness ==
    /\ pc = "loop"
    /\ edge = LEFT
    /\ FLess(bounce.vel[1], Zero)
    /\ FLess(Zero, bounce.vel[2])
    /\ FLess(Zero, vel[1])
    /\ FLess(Zero, vel[2])

----------------------------------------------------------------------------
(* C15: set_available_actions with an empty legal-action set or an empty   *)
(* state enumeration is a fatal error; Q and E are never allocated with    *)
(* zero rows or zero columns.                                              *)

C15_NoEmptyTables ==
    (q_vals # None /\ e_vals # None) =>
        /\ feature_states # <<>>
        /\ legal_actions # <<>>
        /\ DOMAIN q_vals # {}
        /\ DOMAIN e_vals # {}
        /\ \A s \in DOMAIN q_vals : DOMAIN q_vals[s] # {}
        /\ \A s \in DOMAIN e_vals : DOMAIN e_vals[s] # {}

----------------------------------------------------------------------------
(* C16: Q and E are either both unallocated or both of shape (N states,   *)
(* M actions); set_available_actions allocates them all zero; no           *)
(* select_action, receive_reward or on_episode_end call changes the shape. *)

Shape(t) == [s \in DOMAIN t |-> DOMAIN t[s]]

C16_SameShape ==
    LET n == Cardinality(StateIndexEnumerateStates(state2index))
        m == Len(legal_actions)
    IN  /\ (q_vals = None) <=> (e_vals = None)
        /\ q_vals # None =>
              /\ Shape(q_vals) = [s \in 0..(n-1) |-> 0..(m-1)]
              /\ Shape(e_vals) = Shape(q_vals)
        /\ last.op = "set_available_actions" =>
              /\ last.pre.q = None
              /\ last.pre.e = None
              /\ AllZero(q_vals)
              /\ AllZero(e_vals)
        /\ last.op \in {"select_action", "receive_reward", "on_episode_end"} =>
              /\ Shape(q_vals) = Shape(last.pre.q)
              /\ Shape(e_vals) = Shape(last.pre.e)

\* tables that hold learnt values after two updates and a later call that
\* is not an update
C16_Witness ==
    /\ nlearn >= 2
    /\ last.op \in {"receive_reward", "on_episode_end"}
    /\ ~AllZero(q_vals)
    /\ ~AllZero(e_vals)

----------------------------------------------------------------------------
(* C17: the pair (s, a) a learning step uses is the pair (s', a') the      *)
(* learning step before it selected and returned, whatever frame-skipped   *)
(* calls and receive_reward calls came between; the action a learning step *)
(* returns is the a' it stores as the new previous action.                 *)

C17_PendingPairChain ==
    /\ (Learned /\ last.prev # <<>>) => <<last.s, last.a>> = last.prev
    /\ Learned =>
          /\ last.ret = last.a2
          /\ s_ = last.s2
          /\ a_ = last.a2
    /\ (last.op \in {"select_action", "receive_reward"} /\ ~last.update) =>
          /\ s_ = last.pre.s
          /\ a_ = last.pre.a

\* a learning step that selected (1, 1), then a frame-skipped call and a
\* reward, then the learning step that uses (1, 1) and selects state 0
C17_Witness ==
    /\ Learned
    /\ last.prev = <<1, 1>>
    /\ last.s = 1
    /\ last.a = 1
    /\ last.s2 = 0
    /\ last.rewards # <<>>
    /\ n_frames_per_action = 2
    /\ ncalls = 3

----------------------------------------------------------------------------
(* C18: on the greedy branch of e_greedy for state s', the action chosen  *)
(* is the smallest index a' at which Q[s', a'] is the maximum of the row   *)
(* Q[s', :]; with an all-zero row it is index 0.                           *)

C18_GreedyFirstMax ==
    (Learned /\ ~last.explore) =>
        LET row == last.pre.q[last.s2]
        IN  /\ last.a2 \in DOMAIN row
            /\ \A j \in DOMAIN row : RLeq(row[j], row[last.a2])
            /\ \A j \in DOMAIN row : j < last.a2 => row[j] # row[last.a2]
            /\ (\A j \in DOMAIN row : row[j] = Zero) => last.a2 = 0

\* a greedy choice of index 1 over a row whose entry 0 has become negative
C18_Witness ==
    /\ Learned
    /\ ~last.explore
    /\ last.a2 = 1
    /\ RLess(last.pre.q[last.s2][0], Zero)
    /\ last.pre.q[last.s2][1] = Zero

----------------------------------------------------------------------------
(* C20: with a trace_type that is none of 'accumulating', 'replacing',     *)
(* 'dutch', select_action raises nothing and bumps no trace entry: E stays *)
(* all zero and so Q stays all zero after any sequence of select_action    *)
(* and receive_reward calls.                                               *)

C20_UnknownTraceNeverLearns ==
    (trace_type \notin {"accumulating", "replacing", "dutch"}
        /\ q_vals # None) =>
        /\ AllZero(e_vals)
        /\ AllZero(q_vals)
        /\ Learned =>
              /\ last.ret = last.a2
              /\ last.ret \in 0..(Len(available_actions) - 1)

\* a second learning step with a reward behind it, hence a TD error that
\* is not zero, under an unknown trace_type
C20_Witness ==
    /\ trace_type = "other"
    /\ Learned
    /\ nlearn >= 2
    /\ last.r # 0
    /\ last.d # Zero
    /\ AllZero(q_vals)

----------------------------------------------------------------------------
(* C21: with replacing traces and 0 <= discount*lambda <= 1, every entry   *)
(* of E is in [0, 1] in every reachable state; after a learning step every *)
(* entry is at most discount*lambda, and the entry of the pair (s, a) just *)
(* updated holds that maximum.                                             *)

C21_ReplacingTraceBounds ==
    LET dl == RMul(discount, lambda_v)
    IN  (/\ trace_type = "replacing"
         /\ RLeq(Zero, dl)
         /\ RLeq(dl, One)
         /\ e_vals # None) =>
            /\ \A s \in DOMAIN e_vals : \A a \in DOMAIN e_vals[s] :
                  /\ RLeq(Zero, e_vals[s][a])
                  /\ RLeq(e_vals[s][a], One)
            /\ Learned =>
                  /\ \A s \in DOMAIN e_vals : \A a \in DOMAIN e_vals[s] :
                        RLeq(e_vals[s][a], dl)
                  /\ e_vals[last.s][last.a] = dl

\* a second learning step on another pair than the first, which leaves the
\* first pair's entry strictly between 0 and discount*lambda
C21_Witness ==
    /\ trace_type = "replacing"
    /\ Learned
    /\ nlearn >= 2
    /\ <<last.s, last.a>> # <<0, 0>>
    /\ RLess(Zero, e_vals[0][0])
    /\ RLess(e_vals[0][0], e_vals[last.s][last.a])
    /\ RLess(e_vals[last.s][last.a], One)

----------------------------------------------------------------------------
(* C22: on_episode_end leaves the pending (s, a) pair, the reward          *)
(* accumulator, Q and the frame-skip counter as they were, so the first    *)
(* learning step of the next episode computes its TD error from the last   *)
(* (s, a) of the episode before and from the rewards of both sides of the  *)
(* episode boundary.                                                       *)

============================================================================
